---- MODULE Spec2Model ----
(***************************************************************************)
(* Model of go-shopify:                                                    *)
(*   the tolerant JSON decoders LineItem.UnmarshalJSON and                 *)
(*   ShippingLines.UnmarshalJSON (order.go), parse and                     *)
(*   RecurringApplicationCharge.UnmarshalJSON (recurring application       *)
(*   charges);                                                             *)
(*   OrderServiceOp.List and ListWithPagination (order.go) with the        *)
(*   extraction of the page cursors from the Link header;                  *)
(*   App.VerifyAuthorizationURL, App.VerifyWebhookRequest,                 *)
(*   App.VerifyWebhookRequestVerbose and the calls of App that go to the   *)
(*   shop (oauth).                                                         *)
(*                                                                         *)
(* A JSON value is a tagged record.  A Go string is a TLA+ string, except  *)
(* for the timestamp texts, which are sequences of one-character strings   *)
(* because time.Parse walks them byte by byte.                             *)
(***************************************************************************)
EXTENDS Integers, Sequences, FiniteSets, TLC

VARIABLES li, sl, r, call, twin, listing, httpRequest, verified, oauth, authz

vars == <<li, sl, r, call, twin, listing, httpRequest, verified, oauth, authz>>

(***************************************************************************)
(* Small arithmetic and text helpers.                                      *)
(***************************************************************************)
RECURSIVE Pow10(_)
Pow10(k) == IF k <= 0 THEN 1 ELSE 10 * Pow10(k - 1)

RECURSIVE NumDigits(_)
NumDigits(n) == IF n < 10 THEN 1 ELSE 1 + NumDigits(n \div 10)

DigitChars == <<"0", "1", "2", "3", "4", "5", "6", "7", "8", "9">>

DigitChar(d) == DigitChars[d + 1]

\* The decimal digits of n, most significant first.
RECURSIVE DigitsOf(_)
DigitsOf(n) == IF n < 10 THEN <<n>> ELSE Append(DigitsOf(n \div 10), n % 10)

\* The text of a sequence of digits.
RECURSIVE DigitText(_)
DigitText(ds) == IF ds = <<>> THEN "" ELSE DigitChar(Head(ds)) \o DigitText(Tail(ds))

(***************************************************************************)
(* JSON values as they arrive in a payload.  A number is its literal:      *)
(* sign, decimal mantissa and power of ten (1234567 is mant 1234567 exp 0, *)
(* 1.5 is mant 15 exp -1, 1e400 is mant 1 exp 400).  An object is a        *)
(* function from its keys to values.  Absent is a key that is not in the   *)
(* payload at all.                                                         *)
(***************************************************************************)
Absent == [kind |-> "absent"]
JNull == [kind |-> "null"]
JBool(b) == [kind |-> "bool", b |-> b]
JStr(s) == [kind |-> "string", str |-> s]
JNum(neg, mant, exp) == [kind |-> "number", neg |-> neg, mant |-> mant, exp |-> exp]
JInt(n) == JNum(FALSE, n, 0)
JObj(fields) == [kind |-> "object", fields |-> fields]
JArr(items) == [kind |-> "array", items |-> items]

HasKey(obj, k) == k \in DOMAIN obj.fields

\* The first byte of the raw text of a value, as json.RawMessage holds it
\* (the decoder hands over the value without leading white space).
FirstByte(v) ==
    CASE v.kind = "array" -> "["
      [] v.kind = "object" -> "{"
      [] v.kind = "string" -> "\""
      [] v.kind = "null" -> "n"
      [] v.kind = "bool" -> IF v.b THEN "t" ELSE "f"
      [] v.kind = "number" -> IF v.neg THEN "-" ELSE DigitChar(Head(DigitsOf(v.mant)))

\* Mutant: a null leaves the raw message empty, as it leaves a plain field.
RawLen_NullIsEmpty(v) == IF v.kind \in {"absent", "null"} THEN 0 ELSE 1

\* json.RawMessage of a field: empty when the key is absent.
RawLen(v) == IF v.kind = "absent" THEN 0 ELSE 1

(***************************************************************************)
(* Go values held in an interface{}.                                       *)
(***************************************************************************)
GoNil == [t |-> "nil"]
GoString(s) == [t |-> "string", s |-> s]
GoBool(b) == [t |-> "bool", b |-> b]
\* A float64 by its shortest decimal digits: value = mant * 10^exp, mant
\* without trailing zeros (0 is mant 0 exp 0).
GoFloat(neg, mant, exp) == [t |-> "float64", neg |-> neg, mant |-> mant, exp |-> exp]

RECURSIVE StripZeros(_, _, _)
StripZeros(neg, mant, exp) ==
    IF mant = 0 THEN GoFloat(neg, 0, 0)
    ELSE IF mant % 10 = 0 THEN StripZeros(neg, mant \div 10, exp + 1)
    ELSE GoFloat(neg, mant, exp)

\* strconv.ParseFloat(s, 64) reports a range error above MaxFloat64
\* (1.7976931348623157e308); the mantissas of the model have at most 8 digits.
FloatOverflows(mant, exp) ==
    LET f == StripZeros(FALSE, mant, exp)
        nd == NumDigits(f.mant)
        dp == nd + f.exp
    IN  /\ f.mant # 0
        /\ \/ dp > 309
           \/ dp = 309 /\ f.mant * Pow10(8 - nd) > 17976931

\* json.Unmarshal of a scalar into an interface{}: [ok, v].
DecodeInterface(v) ==
    CASE v.kind = "null" -> [ok |-> TRUE, v |-> GoNil]
      [] v.kind = "string" -> [ok |-> TRUE, v |-> GoString(v.str)]
      [] v.kind = "bool" -> [ok |-> TRUE, v |-> GoBool(v.b)]
      [] v.kind = "number" ->
            IF FloatOverflows(v.mant, v.exp)
            THEN [ok |-> FALSE, v |-> GoNil]
            ELSE [ok |-> TRUE, v |-> StripZeros(v.neg, v.mant, v.exp)]

(***************************************************************************)
(* fmt.Sprintf("%v", x).  A float64 is formatted as %g with the shortest   *)
(* digits: %e when the decimal exponent is below -4 or at least 6 (the     *)
(* precision strconv uses for that choice when digits are the shortest),   *)
(* %f otherwise.                                                           *)
(***************************************************************************)
\* the digit at position i (from 0) of ds, '0' outside it
DigitAt(ds, i) == IF i >= 0 /\ i < Len(ds) THEN ds[i + 1] ELSE 0

\* %e: d.ddddde+XX, the exponent with at least two digits
FmtE(ds, x) ==
    DigitText(<<Head(ds)>>)
    \o (IF Len(ds) > 1 THEN "." \o DigitText(Tail(ds)) ELSE "")
    \o "e" \o (IF x < 0 THEN "-" ELSE "+")
    \o (LET a == IF x < 0 THEN -x ELSE x
        IN  IF a < 10 THEN "0" \o DigitText(DigitsOf(a)) ELSE DigitText(DigitsOf(a)))

\* %f with prec digits after the point; dp is the position of the point
FmtF(ds, dp, prec) ==
    (IF dp > 0 THEN DigitText([i \in 1..dp |-> DigitAt(ds, i - 1)]) ELSE "0")
    \o (IF prec > 0
        THEN "." \o DigitText([i \in 1..prec |-> DigitAt(ds, dp + i - 1)])
        ELSE "")

FormatFloat(f) ==
    LET ds == IF f.mant = 0 THEN <<>> ELSE DigitsOf(f.mant)
        nd == Len(ds)
        dp == IF f.mant = 0 THEN 0 ELSE nd + f.exp
        x == dp - 1
        body == IF f.mant = 0 THEN "0"
                ELSE IF x < -4 \/ x >= 6 THEN FmtE(ds, x)
                ELSE FmtF(ds, dp, IF nd - dp > 0 THEN nd - dp ELSE 0)
    IN  (IF f.neg THEN "-" ELSE "") \o body

Sprintf(x) ==
    CASE x.t = "string" -> x.s
      [] x.t = "float64" -> FormatFloat(x)
      [] x.t = "bool" -> IF x.b THEN "true" ELSE "false"
      [] x.t = "nil" -> "<nil>"

(***************************************************************************)
(* Go slices and errors.  A nil slice and an empty non-nil slice both have *)
(* length 0 and are told apart by isNil.                                   *)
(***************************************************************************)
NilSlice == [isNil |-> TRUE, elems |-> <<>>]
Slice(elems) == [isNil |-> FALSE, elems |-> elems]

NoError == "nil"
UnmarshalTypeError == "json.UnmarshalTypeError"
ParseError == "time.ParseError"

(***************************************************************************)
(* encoding/json on the fields the decoders touch.                         *)
(***************************************************************************)
\* A JSON value decoded into a string field holding old: null and an absent
\* key leave the field alone, any value but a string is a type error.
DecodeStringField(old, v) ==
    CASE v.kind \in {"absent", "null"} -> [ok |-> TRUE, s |-> old]
      [] v.kind = "string" -> [ok |-> TRUE, s |-> v.str]
      [] OTHER -> [ok |-> FALSE, s |-> old]

NoteAttribute(name, value) == [Name |-> name, Value |-> value]

\* Mutant: the name tag is lost, only the value is decoded.
UnmarshalNoteAttribute_NoName(v) ==
    CASE v.kind = "null" -> [ok |-> TRUE, p |-> NoteAttribute("", GoNil)]
      [] v.kind = "object" ->
            LET x == IF HasKey(v, "value")
                     THEN DecodeInterface(v.fields.value)
                     ELSE [ok |-> TRUE, v |-> GoNil]
            IN  [ok |-> x.ok, p |-> NoteAttribute("", x.v)]
      [] OTHER -> [ok |-> FALSE, p |-> NoteAttribute("", GoNil)]

\* json.Unmarshal(raw, &p) for a zero NoteAttribute p.
UnmarshalNoteAttribute(v) ==
    CASE v.kind = "null" -> [ok |-> TRUE, p |-> NoteAttribute("", GoNil)]
      [] v.kind = "object" ->
            LET n == IF HasKey(v, "name")
                     THEN DecodeStringField("", v.fields.name)
                     ELSE [ok |-> TRUE, s |-> ""]
                x == IF HasKey(v, "value")
                     THEN DecodeInterface(v.fields.value)
                     ELSE [ok |-> TRUE, v |-> GoNil]
            IN  [ok |-> n.ok /\ x.ok, p |-> NoteAttribute(n.s, x.v)]
      [] OTHER -> [ok |-> FALSE, p |-> NoteAttribute("", GoNil)]

\* Mutant: the errors of the elements are dropped.
UnmarshalNoteAttributes_Lenient(v) ==
    [ok |-> TRUE,
     p |-> Slice([i \in 1..Len(v.items) |-> UnmarshalNoteAttribute(v.items[i]).p])]

\* json.Unmarshal(raw, &p) for a nil []NoteAttribute p and a raw array: an
\* empty array gives an empty slice that is not nil.
UnmarshalNoteAttributes(v) ==
    LET each == [i \in 1..Len(v.items) |-> UnmarshalNoteAttribute(v.items[i])]
    IN  [ok |-> \A i \in 1..Len(v.items) : each[i].ok,
         p |-> Slice([i \in 1..Len(v.items) |-> each[i].p])]

(***************************************************************************)
(* LineItem.UnmarshalJSON.  Of the fields decoded through the alias, Title *)
(* stands for all of them.  The result is the receiver after the call and  *)
(* the error returned.                                                     *)
(***************************************************************************)
\* Mutant: the empty-struct test is left out.
IsEmptyAttr_Never(p) == FALSE

\* Mutant: the empty-struct test looks at the name alone.
IsEmptyAttr_NameOnly(p) == p.Name = ""

\* the test "the struct is empty"
IsEmptyAttr(p) == p.Name = "" /\ p.Value = GoNil

\* Mutant: a decoded array is appended to the properties the receiver holds.
LineItem_UnmarshalJSON_Appends(self, data) ==
    LET title == DecodeStringField(self.Title, data.title)
        aux == [self EXCEPT !.Title = title.s]
        raw == data.properties
    IN  IF ~title.ok THEN [li |-> aux, err |-> UnmarshalTypeError]
        ELSE IF RawLen(raw) = 0 THEN [li |-> aux, err |-> NoError]
        ELSE IF FirstByte(raw) = "["
        THEN LET p == UnmarshalNoteAttributes(raw)
             IN  IF ~p.ok THEN [li |-> aux, err |-> UnmarshalTypeError]
                 ELSE [li |-> [aux EXCEPT !.Properties =
                                   Slice(self.Properties.elems \o p.p.elems)],
                       err |-> NoError]
        ELSE LET p == UnmarshalNoteAttribute(raw)
             IN  IF ~p.ok THEN [li |-> aux, err |-> UnmarshalTypeError]
                 ELSE IF IsEmptyAttr(p.p)
                 THEN [li |-> [aux EXCEPT !.Properties = NilSlice], err |-> NoError]
                 ELSE [li |-> [aux EXCEPT !.Properties = Slice(<<p.p>>)],
                       err |-> NoError]

LineItem_UnmarshalJSON(self, data) ==
    LET title == DecodeStringField(self.Title, data.title)
        aux == [self EXCEPT !.Title = title.s]
        raw == data.properties
    IN  IF ~title.ok THEN [li |-> aux, err |-> UnmarshalTypeError]
        ELSE IF RawLen(raw) = 0 THEN [li |-> aux, err |-> NoError]
        ELSE IF FirstByte(raw) = "["
        THEN LET p == UnmarshalNoteAttributes(raw)
             IN  IF ~p.ok THEN [li |-> aux, err |-> UnmarshalTypeError]
                 ELSE [li |-> [aux EXCEPT !.Properties = p.p], err |-> NoError]
        ELSE LET p == UnmarshalNoteAttribute(raw)
             IN  IF ~p.ok THEN [li |-> aux, err |-> UnmarshalTypeError]
                 ELSE IF IsEmptyAttr(p.p)
                 THEN [li |-> [aux EXCEPT !.Properties = NilSlice], err |-> NoError]
                 ELSE [li |-> [aux EXCEPT !.Properties = Slice(<<p.p>>)],
                       err |-> NoError]

(***************************************************************************)
(* ShippingLines.UnmarshalJSON.                                            *)
(***************************************************************************)
\* Mutant: no case for nil, everything goes through %v.
VariantScalar_NoNilCase(x) == Sprintf(x)

\* Mutant: %q in place of %v.
VariantScalar_Quoted(x) ==
    IF x = GoNil THEN ""
    ELSE IF x.t = "string" THEN "\"" \o x.s \o "\"" ELSE Sprintf(x)

\* the type switch on the decoded value
VariantScalar(x) == IF x = GoNil THEN "" ELSE Sprintf(x)

ShippingLines_UnmarshalJSON(self, data) ==
    LET title == DecodeStringField(self.Title, data.title)
        aux == [self EXCEPT !.Title = title.s]
        id == IF data.requested_fulfillment_service_id.kind = "absent"
              THEN [ok |-> TRUE, v |-> GoNil]
              ELSE DecodeInterface(data.requested_fulfillment_service_id)
    IN  IF ~(title.ok /\ id.ok) THEN [sl |-> aux, err |-> UnmarshalTypeError]
        ELSE [sl |-> [aux EXCEPT !.RequestedFulfillmentServiceID = VariantScalar(id.v)],
              err |-> NoError]

(***************************************************************************)
(* time.Parse for the two layouts parse uses.  A text is a sequence of     *)
(* one-character strings, and the parser's walk along it is told by the    *)
(* position it has reached.  A time is its wall clock and its offset from  *)
(* UTC in seconds; which *time.Location carries the offset is not          *)
(* modelled.                                                               *)
(***************************************************************************)
\* the byte at position i (from 1), "" past the end
At(s, i) == IF i >= 1 /\ i <= Len(s) THEN s[i] ELSE ""

IsDigit(s, i) == \E d \in 0..9 : DigitChars[d + 1] = At(s, i)

DigitVal(c) == CHOOSE d \in 0..9 : DigitChars[d + 1] = c

\* getnum at position i: one or two digits, exactly two when fixed;
\* len is the number of bytes taken
getnum(s, i, fixed) ==
    IF ~IsDigit(s, i) THEN [ok |-> FALSE, n |-> 0, len |-> 0]
    ELSE IF ~IsDigit(s, i + 1)
    THEN IF fixed THEN [ok |-> FALSE, n |-> 0, len |-> 0]
         ELSE [ok |-> TRUE, n |-> DigitVal(s[i]), len |-> 1]
    ELSE [ok |-> TRUE, n |-> DigitVal(s[i]) * 10 + DigitVal(s[i + 1]), len |-> 2]

\* "2006" at position 1: exactly four digits
LongYear(s) ==
    IF \A i \in 1..4 : IsDigit(s, i)
    THEN [ok |-> TRUE,
          n |-> DigitVal(s[1]) * 1000 + DigitVal(s[2]) * 100
                + DigitVal(s[3]) * 10 + DigitVal(s[4])]
    ELSE [ok |-> FALSE, n |-> 0]

IsLeap(y) == y % 4 = 0 /\ (y % 100 # 0 \/ y % 400 = 0)

DaysIn(m, y) ==
    IF m = 2 THEN (IF IsLeap(y) THEN 29 ELSE 28)
    ELSE IF m \in {4, 6, 9, 11} THEN 30 ELSE 31

\* "2006-01-02" at the head of s: ten bytes
DatePrefix(s) ==
    LET y == LongYear(s)
        m == getnum(s, 6, TRUE)
        d == getnum(s, 9, TRUE)
    IN  [ok |-> /\ y.ok /\ At(s, 5) = "-" /\ m.ok /\ At(s, 8) = "-" /\ d.ok
                /\ m.n >= 1 /\ m.n <= 12
                /\ d.n >= 1 /\ d.n <= DaysIn(m.n, y.n),
         year |-> y.n, month |-> m.n, day |-> d.n]

RECURSIVE DigitRun(_, _)
\* the number of digits of s from position i on
DigitRun(s, i) == IF IsDigit(s, i) THEN 1 + DigitRun(s, i + 1) ELSE 0

RECURSIVE Atoi(_)
Atoi(s) == IF s = <<>> THEN 0 ELSE Atoi(SubSeq(s, 1, Len(s) - 1)) * 10 + DigitVal(s[Len(s)])

\* a fraction after the seconds, which the layout does not name: '.' and
\* digits from position i on, of which nine count
FracSecond(s, i) ==
    IF At(s, i) = "." /\ IsDigit(s, i + 1)
    THEN LET k == DigitRun(s, i + 1)
             used == IF k > 9 THEN 9 ELSE k
         IN  [nsec |-> Atoi(SubSeq(s, i + 1, i + used)) * Pow10(9 - used),
              len |-> k + 1]
    ELSE [nsec |-> 0, len |-> 0]

\* "Z07:00" at position i: Z, or a sign, two digits, ':' and two digits
ColonTZ(s, i) ==
    IF At(s, i) = "Z" THEN [ok |-> TRUE, offset |-> 0, len |-> 1]
    ELSE IF Len(s) < i + 5 \/ s[i + 3] # ":" THEN [ok |-> FALSE, offset |-> 0, len |-> 0]
    ELSE LET hr == getnum(SubSeq(s, i + 1, i + 2), 1, TRUE)
             mm == getnum(SubSeq(s, i + 4, i + 5), 1, TRUE)
             secs == (hr.n * 60 + mm.n) * 60
         IN  [ok |-> hr.ok /\ mm.ok /\ s[i] \in {"+", "-"},
              offset |-> IF s[i] = "-" THEN -secs ELSE secs,
              len |-> 6]

Time(y, mo, d, h, mi, sec, nsec, offset) ==
    [year |-> y, month |-> mo, day |-> d, hour |-> h, minute |-> mi,
     second |-> sec, nsec |-> nsec, offset |-> offset]

DateOnly == "2006-01-02"
RFC3339 == "2006-01-02T15:04:05Z07:00"

\* time.Parse(format, s): [ok, t]; text left over after the layout is an error
time_Parse(format, s) ==
    LET date == DatePrefix(s)
        zero == Time(0, 0, 0, 0, 0, 0, 0, 0)
    IN  IF format = DateOnly
        THEN IF date.ok /\ Len(s) = 10
             THEN [ok |-> TRUE, t |-> Time(date.year, date.month, date.day, 0, 0, 0, 0, 0)]
             ELSE [ok |-> FALSE, t |-> zero]
        ELSE LET h == getnum(s, 12, FALSE)
                 q == 12 + h.len
                 mi == getnum(s, q + 1, TRUE)
                 sec == getnum(s, q + 4, TRUE)
                 frac == FracSecond(s, q + 6)
                 z == q + 6 + frac.len
                 tz == ColonTZ(s, z)
             IN  IF /\ date.ok /\ At(s, 11) = "T" /\ h.ok /\ At(s, q) = ":" /\ mi.ok
                    /\ At(s, q + 3) = ":" /\ sec.ok
                    /\ h.n < 24 /\ mi.n < 60 /\ sec.n < 60
                    /\ tz.ok /\ z + tz.len = Len(s) + 1
                 THEN [ok |-> TRUE,
                       t |-> Time(date.year, date.month, date.day, h.n, mi.n, sec.n,
                                  frac.nsec, tz.offset)]
                 ELSE [ok |-> FALSE, t |-> zero]

(***************************************************************************)
(* parse and RecurringApplicationCharge.UnmarshalJSON.  A *time.Time and a *)
(* *string are NilPtr or Ptr(value).  parse gives the pointer *dest holds  *)
(* after the call, the error, and the format it chose ("" when it chose    *)
(* none).                                                                  *)
(***************************************************************************)
NilPtr == [isNil |-> TRUE]
Ptr(v) == [isNil |-> FALSE, v |-> v]

DateOnlyLen == 10

\* Mutant: the length is not looked at, every text is parsed as RFC 3339.
parse_AlwaysRFC3339(dest, data) ==
    IF data.isNil THEN [dest |-> dest, err |-> NoError, format |-> ""]
    ELSE LET t == time_Parse(RFC3339, data.v)
         IN  IF ~t.ok THEN [dest |-> dest, err |-> ParseError, format |-> RFC3339]
             ELSE [dest |-> Ptr(t.t), err |-> NoError, format |-> RFC3339]

\* Mutant: *dest is assigned before the error is looked at.
parse_ClobberOnError(dest, data) ==
    IF data.isNil THEN [dest |-> dest, err |-> NoError, format |-> ""]
    ELSE LET format == IF Len(data.v) = DateOnlyLen THEN DateOnly ELSE RFC3339
             t == time_Parse(format, data.v)
         IN  [dest |-> Ptr(t.t), err |-> IF t.ok THEN NoError ELSE ParseError,
              format |-> format]

\* Mutant: no test for nil, a nil text is parsed as the empty text.
parse_NilIsEmptyText(dest, data) ==
    LET text == IF data.isNil THEN <<>> ELSE data.v
        format == IF Len(text) = DateOnlyLen THEN DateOnly ELSE RFC3339
        t == time_Parse(format, text)
    IN  IF ~t.ok THEN [dest |-> dest, err |-> ParseError, format |-> format]
        ELSE [dest |-> Ptr(t.t), err |-> NoError, format |-> format]

parse(dest, data) ==
    IF data.isNil THEN [dest |-> dest, err |-> NoError, format |-> ""]
    ELSE LET format == IF Len(data.v) = DateOnlyLen THEN DateOnly ELSE RFC3339
             t == time_Parse(format, data.v)
         IN  IF ~t.ok THEN [dest |-> dest, err |-> ParseError, format |-> format]
             ELSE [dest |-> Ptr(t.t), err |-> NoError, format |-> format]

\* A JSON value decoded into a nil *string.
DecodeStringPtr(v) ==
    CASE v.kind \in {"absent", "null"} -> [ok |-> TRUE, p |-> NilPtr]
      [] v.kind = "string" -> [ok |-> TRUE, p |-> Ptr(v.str)]
      [] OTHER -> [ok |-> FALSE, p |-> NilPtr]

\* Mutant: created_at goes through parse as well, and its error is returned.
RecurringApplicationCharge_UnmarshalJSON_ParsesCreatedAt(self, data) ==
    LET name == DecodeStringField(self.Name, data.name)
        aux == [self EXCEPT !.Name = name.s]
        createdAt == DecodeStringPtr(data.created_at)
        updatedAt == DecodeStringPtr(data.updated_at)
    IN  IF ~(name.ok /\ createdAt.ok /\ updatedAt.ok)
        THEN [r |-> aux, err |-> UnmarshalTypeError, format |-> ""]
        ELSE LET c == parse(NilPtr, createdAt.p)
                 p == parse(aux.UpdatedAt, updatedAt.p)
             IN  IF c.err # NoError
                 THEN [r |-> aux, err |-> c.err, format |-> c.format]
                 ELSE [r |-> [aux EXCEPT !.UpdatedAt = p.dest], err |-> p.err,
                       format |-> p.format]

\* Of the fields decoded through the alias, Name stands for all of them; of
\* the five date texts that aux holds and nothing reads, created_at does.
RecurringApplicationCharge_UnmarshalJSON(self, data) ==
    LET name == DecodeStringField(self.Name, data.name)
        aux == [self EXCEPT !.Name = name.s]
        createdAt == DecodeStringPtr(data.created_at)
        updatedAt == DecodeStringPtr(data.updated_at)
    IN  IF ~(name.ok /\ createdAt.ok /\ updatedAt.ok)
        THEN [r |-> aux, err |-> UnmarshalTypeError, format |-> ""]
        ELSE LET p == parse(aux.UpdatedAt, updatedAt.p)
             IN  [r |-> [aux EXCEPT !.UpdatedAt = p.dest], err |-> p.err,
                  format |-> p.format]

(***************************************************************************)
(* Listing orders.  A Link header is the sequence of its comma-separated   *)
(* entries, the empty header the empty sequence.  An entry says which of   *)
(* its delimiters it has ("<" and ">" around the URL, ";" before rel), its *)
(* rel value and the page_info parameter of its URL ("" when the URL has   *)
(* none).  A cursor pair holds for next and for previous a page token or   *)
(* nothing.                                                                *)
(***************************************************************************)
LinkEntry(lt, gt, semi, rel, page_info) ==
    [lt |-> lt, gt |-> gt, semi |-> semi, rel |-> rel, page_info |-> page_info]

EmptyPagination == [next |-> NilPtr, previous |-> NilPtr]

MalformedPaginationError == "MalformedPaginationError"
ResponseError == "ResponseError"

\* the entry has its delimiters and its page token
WellFormedEntry(e) == e.lt /\ e.gt /\ e.semi /\ e.page_info # ""

\* the entries put into their slots, one after the other
RECURSIVE FillCursors(_, _)
FillCursors(cursors, entries) ==
    IF entries = <<>> THEN cursors
    ELSE LET e == Head(entries)
             filled == CASE e.rel = "next" ->
                                [cursors EXCEPT !.next = Ptr(e.page_info)]
                         [] e.rel = "previous" ->
                                [cursors EXCEPT !.previous = Ptr(e.page_info)]
                         [] OTHER -> cursors
         IN  FillCursors(filled, Tail(entries))

extractPagination(linkHeader) ==
    IF linkHeader = <<>>
    THEN [pagination |-> Ptr(EmptyPagination), err |-> NoError]
    ELSE IF \E i \in 1..Len(linkHeader) : ~WellFormedEntry(linkHeader[i])
    THEN [pagination |-> NilPtr, err |-> MalformedPaginationError]
    ELSE [pagination |-> Ptr(FillCursors(EmptyPagination, linkHeader)),
          err |-> NoError]

\* headers.Get(key): "" when the response has no such header
Header_Get(headers, key) ==
    IF key \in DOMAIN headers THEN headers[key] ELSE <<>>

\* Mutant: without a Link header no pagination is returned at all.
OrderServiceOp_ListWithPagination_NoLinkNoPagination(resp) ==
    IF resp.err # NoError
    THEN [orders |-> NilSlice, pagination |-> NilPtr, err |-> resp.err]
    ELSE LET linkHeader == Header_Get(resp.headers, "Link")
             p == extractPagination(linkHeader)
         IN  IF linkHeader = <<>>
             THEN [orders |-> resp.orders, pagination |-> NilPtr, err |-> NoError]
             ELSE IF p.err # NoError
             THEN [orders |-> NilSlice, pagination |-> NilPtr, err |-> p.err]
             ELSE [orders |-> resp.orders, pagination |-> p.pagination,
                   err |-> NoError]

\* Mutant: the header is looked up under a name the response does not carry.
OrderServiceOp_ListWithPagination_WrongHeader(resp) ==
    IF resp.err # NoError
    THEN [orders |-> NilSlice, pagination |-> NilPtr, err |-> resp.err]
    ELSE LET linkHeader == Header_Get(resp.headers, "Links")
             p == extractPagination(linkHeader)
         IN  IF p.err # NoError
             THEN [orders |-> NilSlice, pagination |-> NilPtr, err |-> p.err]
             ELSE [orders |-> resp.orders, pagination |-> p.pagination,
                   err |-> NoError]

\* Mutant: the decoded orders are returned together with the error.
OrderServiceOp_ListWithPagination_OrdersWithError(resp) ==
    IF resp.err # NoError
    THEN [orders |-> NilSlice, pagination |-> NilPtr, err |-> resp.err]
    ELSE LET linkHeader == Header_Get(resp.headers, "Link")
             p == extractPagination(linkHeader)
         IN  IF p.err # NoError
             THEN [orders |-> resp.orders, pagination |-> NilPtr, err |-> p.err]
             ELSE [orders |-> resp.orders, pagination |-> p.pagination,
                   err |-> NoError]

\* resp is what createAndDoGetHeaders brings back: its error, the headers of
\* the response and the orders decoded into resource
OrderServiceOp_ListWithPagination(resp) ==
    IF resp.err # NoError
    THEN [orders |-> NilSlice, pagination |-> NilPtr, err |-> resp.err]
    ELSE LET linkHeader == Header_Get(resp.headers, "Link")
             p == extractPagination(linkHeader)
         IN  IF p.err # NoError
             THEN [orders |-> NilSlice, pagination |-> NilPtr, err |-> p.err]
             ELSE [orders |-> resp.orders, pagination |-> p.pagination,
                   err |-> NoError]

OrderServiceOp_List(resp) ==
    LET res == OrderServiceOp_ListWithPagination(resp)
    IN  IF res.err # NoError THEN [orders |-> NilSlice, err |-> res.err]
        ELSE [orders |-> res.orders, err |-> NoError]

(***************************************************************************)
(* Webhook verification.  HMAC-SHA256 is a function of key and message     *)
(* whose results have 32 bytes and differ when key or message differ.  A   *)
(* header value is the empty text (header not set), a text that is not     *)
(* base64, or the base64 text of some bytes.  A request body is a reader:  *)
(* the bytes it still has to deliver, and whether it then ends with an     *)
(* error (a broken connection, a size limit) instead of EOF.               *)
(***************************************************************************)
MacLen == 32

HMAC(key, message) == [len |-> MacLen, key |-> key, message |-> message]

EmptyText == [text |-> "empty"]
NotBase64 == [text |-> "not base64"]
Base64(bytes) == [text |-> "base64", bytes |-> bytes]

\* base64.StdEncoding.DecodeString
Base64_DecodeString(text) ==
    IF text.text = "base64" THEN [bytes |-> text.bytes, err |-> NoError]
    ELSE [bytes |-> <<>>, err |-> "base64.CorruptInputError"]

Reader(bytes, broken) == [bytes |-> bytes, broken |-> broken]

ReadError == "read error"

\* ioutil.ReadAll(body): the bytes delivered, the error, the reader afterwards
ioutil_ReadAll(body) ==
    [bytes |-> body.bytes,
     err |-> IF body.broken THEN ReadError ELSE NoError,
     body |-> Reader(<<>>, body.broken)]

\* ioutil.NopCloser(bytes.NewBuffer(b))
NopCloser(b) == Reader(b, FALSE)

\* the result: the verdict, and the request as the call leaves it
VerifyWebhookRequest(app, req) ==
    LET read == ioutil_ReadAll(req.Body)
        expectedMac == Base64(HMAC(app.ApiSecret, read.bytes))
    IN  [ok |-> req.Header = expectedMac,
         req |-> [req EXCEPT !.Body = NopCloser(read.bytes)]]

ErrSecretEmpty == "ApiSecret is empty"
ErrHeaderNotSet == "header X-Shopify-Hmac-Sha256 not set"
ErrHMACLength == "received HMAC is not of length 32"
ErrBodyEmpty == "request body is empty"
ErrHashDiffers == "expected hash does not equal"

\* Mutant: the header is looked at before the secret.
VerifyWebhookRequestVerbose_HeaderFirst(app, req) ==
    IF req.Header = EmptyText
    THEN [ok |-> FALSE, err |-> ErrHeaderNotSet, req |-> req, compared |-> FALSE]
    ELSE IF app.ApiSecret = ""
    THEN [ok |-> FALSE, err |-> ErrSecretEmpty, req |-> req, compared |-> FALSE]
    ELSE LET decoded == Base64_DecodeString(req.Header)
             read == ioutil_ReadAll(req.Body)
             restored == [req EXCEPT !.Body = NopCloser(read.bytes)]
             HMACSame == decoded.bytes = HMAC(app.ApiSecret, read.bytes)
         IN  IF decoded.err # NoError
             THEN [ok |-> FALSE, err |-> decoded.err, req |-> req,
                   compared |-> FALSE]
             ELSE IF decoded.bytes.len # MacLen
             THEN [ok |-> FALSE, err |-> ErrHMACLength, req |-> req,
                   compared |-> FALSE]
             ELSE IF read.err # NoError
             THEN [ok |-> FALSE, err |-> read.err,
                   req |-> [req EXCEPT !.Body = read.body], compared |-> FALSE]
             ELSE IF Len(read.bytes) = 0
             THEN [ok |-> FALSE, err |-> ErrBodyEmpty, req |-> restored,
                   compared |-> FALSE]
             ELSE IF ~HMACSame
             THEN [ok |-> FALSE, err |-> ErrHashDiffers, req |-> restored,
                   compared |-> TRUE]
             ELSE [ok |-> TRUE, err |-> NoError, req |-> restored,
                   compared |-> TRUE]

\* compared: the two HMACs were compared
VerifyWebhookRequestVerbose(app, req) ==
    IF app.ApiSecret = ""
    THEN [ok |-> FALSE, err |-> ErrSecretEmpty, req |-> req, compared |-> FALSE]
    ELSE IF req.Header = EmptyText
    THEN [ok |-> FALSE, err |-> ErrHeaderNotSet, req |-> req, compared |-> FALSE]
    ELSE LET decoded == Base64_DecodeString(req.Header)
             read == ioutil_ReadAll(req.Body)
             restored == [req EXCEPT !.Body = NopCloser(read.bytes)]
             HMACSame == decoded.bytes = HMAC(app.ApiSecret, read.bytes)
         IN  IF decoded.err # NoError
             THEN [ok |-> FALSE, err |-> decoded.err, req |-> req,
                   compared |-> FALSE]
             ELSE IF decoded.bytes.len # MacLen
             THEN [ok |-> FALSE, err |-> ErrHMACLength, req |-> req,
                   compared |-> FALSE]
             ELSE IF read.err # NoError
             THEN [ok |-> FALSE, err |-> read.err,
                   req |-> [req EXCEPT !.Body = read.body], compared |-> FALSE]
             ELSE IF Len(read.bytes) = 0
             THEN [ok |-> FALSE, err |-> ErrBodyEmpty, req |-> restored,
                   compared |-> FALSE]
             ELSE IF ~HMACSame
             THEN [ok |-> FALSE, err |-> ErrHashDiffers, req |-> restored,
                   compared |-> TRUE]
             ELSE [ok |-> TRUE, err |-> NoError, req |-> restored,
                   compared |-> TRUE]

(***************************************************************************)
(* The calls of App that go to the shop: GetAccessToken,                   *)
(* GetOfflineAccessToken, GetNameAndEmailFromOnlineAccessToken, Uninstall. *)
(* A call is told step by step: it takes its client, builds the request    *)
(* with client.NewRequest, hands it to client.Do and returns.  The record  *)
(* of a call counts the calls of NewRequest and of Do and the HTTP         *)
(* requests that went out.                                                 *)
(***************************************************************************)
accessTokenRelPath == "admin/oauth/access_token"

OAuthCalls ==
    {"GetAccessToken", "GetOfflineAccessToken",
     "GetNameAndEmailFromOnlineAccessToken", "Uninstall"}

\* NewClient(app, shopName, token)
NewClient(shopName, token) == [shopName |-> shopName, token |-> token]

\* client := app.Client; if client == nil { client = NewClient(...) }
ClientOf(appClient, fn, shopName, arg) ==
    IF appClient # NilPtr THEN appClient.v
    ELSE NewClient(shopName, IF fn = "Uninstall" THEN arg ELSE "")

\* the arguments of client.NewRequest
RequestOf(fn, arg) ==
    CASE fn = "GetAccessToken" ->
            [method |-> "POST", path |-> accessTokenRelPath,
             body |-> [code |-> arg]]
      [] fn = "GetOfflineAccessToken" ->
            [method |-> "POST", path |-> accessTokenRelPath,
             body |-> [subject_token |-> arg,
                       requested_token_type |->
                           "urn:shopify:params:oauth:token-type:offline-access-token"]]
      [] fn = "GetNameAndEmailFromOnlineAccessToken" ->
            [method |-> "POST", path |-> accessTokenRelPath,
             body |-> [subject_token |-> arg,
                       requested_token_type |->
                           "urn:shopify:params:oauth:token-type:online-access-token"]]
      [] fn = "Uninstall" ->
            [method |-> "DELETE", path |-> "admin/api_permissions/current.json",
             body |-> <<>>]

RequestError == "NewRequest error"

\* the call is entered and its client taken
App_Enter(fn, appClient, shopName, arg) ==
    [pc |-> "NewRequest", fn |-> fn, arg |-> arg,
     client |-> ClientOf(appClient, fn, shopName, arg),
     newRequestCalls |-> 0, doCalls |-> 0, sent |-> 0, err |-> NoError]

\* req, err := client.NewRequest(...); if err != nil { return ..., err }
App_NewRequest(o, ok) ==
    IF ok
    THEN [o EXCEPT !.pc = "Do", !.newRequestCalls = @ + 1] @@ [req |-> RequestOf(o.fn, o.arg)]
    ELSE [o EXCEPT !.pc = "returned", !.newRequestCalls = @ + 1,
                   !.err = RequestError]

\* client.Do(req, v): one HTTP request, whose outcome is the error of Do
Client_Do(outcome) == [sent |-> 1, err |-> outcome]

\* Mutant: a failed Do is tried once more.
App_Do_RetryOnError(o, outcome) ==
    LET done == Client_Do(outcome)
    IN  IF done.err # NoError /\ o.doCalls = 0
        THEN [o EXCEPT !.doCalls = @ + 1, !.sent = @ + done.sent]
        ELSE [o EXCEPT !.pc = "returned", !.doCalls = @ + 1,
                       !.sent = @ + done.sent, !.err = done.err]

\* err = client.Do(req, token); return ..., err
App_Do(o, outcome) ==
    LET done == Client_Do(outcome)
    IN  [o EXCEPT !.pc = "returned", !.doCalls = @ + 1, !.sent = @ + done.sent,
                  !.err = done.err]

(***************************************************************************)
(* Verifying the callback URL.  The query of a URL is the sequence of its  *)
(* key=value pairs as they stand in RawQuery.  url.Values is a function    *)
(* from the keys that occur to the sequences of their values.  A value is  *)
(* a plain text, or the hex text of some bytes.  The message that is       *)
(* signed is the sequence of pairs that Encode writes, sorted by key; no   *)
(* key or value of the model holds "&" or "=", so the text and the         *)
(* sequence say the same.                                                  *)
(***************************************************************************)
Plain(str) == [text |-> "plain", s |-> str]
Hex(bytes) == [text |-> "hex", bytes |-> bytes]

\* the keys of the model in the order of their bytes, as Encode sorts them
KeyOrder == <<"code", "hmac", "shop", "signature">>

\* u.Query(): a new url.Values parsed from u.RawQuery
RECURSIVE ParseQuery(_, _)
ParseQuery(q, raw) ==
    IF raw = <<>> THEN q
    ELSE LET k == Head(raw)[1]
             v == Head(raw)[2]
             vs == IF k \in DOMAIN q THEN q[k] ELSE <<>>
         IN  ParseQuery([x \in DOMAIN q \cup {k} |->
                            IF x = k THEN Append(vs, v) ELSE q[x]],
                        Tail(raw))

URL_Query(u) == ParseQuery(<<>>, u.RawQuery)

\* q.Get(key): the first value, "" when there is none
Values_Get(q, key) == IF key \in DOMAIN q THEN q[key][1] ELSE Plain("")

\* q.Del(key)
Values_Del(q, key) == [x \in DOMAIN q \ {key} |-> q[x]]

\* q.Encode(), from the i-th key of the order on; url.QueryUnescape of it
\* gives the same pairs back and no error
RECURSIVE Values_Encode(_, _)
Values_Encode(q, i) ==
    IF i > Len(KeyOrder) THEN <<>>
    ELSE LET k == KeyOrder[i]
         IN  (IF k \in DOMAIN q THEN [j \in 1..Len(q[k]) |-> <<k, q[k][j]>>]
              ELSE <<>>)
             \o Values_Encode(q, i + 1)

\* hex.DecodeString, its error dropped: no bytes for a text that is not hex
Hex_DecodeString(text) == IF text.text = "hex" THEN text.bytes ELSE <<>>

VerifyMessage(app, message, messageMAC) ==
    Hex_DecodeString(messageMAC) = HMAC(app.ApiSecret, message)

\* Mutant: the query without hmac and signature is written back to the URL.
VerifyAuthorizationURL_WritesBack(app, u) ==
    LET q == URL_Query(u)
        messageMAC == Values_Get(q, "hmac")
        rest == Values_Del(Values_Del(q, "hmac"), "signature")
        message == Values_Encode(rest, 1)
    IN  [ok |-> VerifyMessage(app, message, messageMAC), err |-> NoError,
         message |-> message, u |-> [u EXCEPT !.RawQuery = message]]

\* the result: the verdict, the error, the message that was signed and the
\* URL as the call leaves it
VerifyAuthorizationURL(app, u) ==
    LET q == URL_Query(u)
        messageMAC == Values_Get(q, "hmac")
        rest == Values_Del(Values_Del(q, "hmac"), "signature")
        message == Values_Encode(rest, 1)
    IN  [ok |-> VerifyMessage(app, message, messageMAC), err |-> NoError,
         message |-> message, u |-> u]

(***************************************************************************)
(* The payloads the decoders are given.                                    *)
(***************************************************************************)
MaxProps == 2
MaxDigits == 7

SeqsUpTo(S, n) == UNION {[1..k -> S] : k \in 0..n}

\* a string field of the payload: a string, or a number (ill-typed)
StringFieldValues == {JStr("t"), JInt(5)}

\* {name, value} objects: each key absent or present; a name that is a
\* string, null or a number (ill-typed); a value that is null, a string, a
\* number or a number no float64 holds
NameValues == {JStr("a"), JStr(""), JNull, JInt(5)}
ValueValues == {JStr("v"), JNull, JInt(7), JNum(FALSE, 1, 400)}

PairObjects ==
    {JObj(f) : f \in {g \in UNION {[K -> NameValues \cup ValueValues] :
                                      K \in SUBSET {"name", "value"}} :
                        /\ "name" \in DOMAIN g => g.name \in NameValues
                        /\ "value" \in DOMAIN g => g.value \in ValueValues}}

ArrayItems ==
    {JObj([name |-> JStr("a"), value |-> JStr("v")]),
     JObj([name |-> JStr(""), value |-> JInt(7)]),
     JObj([name |-> JStr("a"), value |-> JNum(FALSE, 1, 400)]),
     JInt(5)}

PropertiesValues ==
    {Absent, JNull, JStr("x"), JInt(3), JBool(TRUE)}
    \cup PairObjects
    \cup {JArr(items) : items \in SeqsUpTo(ArrayItems, MaxProps)}

LineItemPayloads ==
    [title : StringFieldValues, properties : PropertiesValues]

\* 1, 12, 123, ...: the integer of k digits
RECURSIVE Ramp(_)
Ramp(k) == IF k = 0 THEN 0 ELSE Ramp(k - 1) * 10 + k

ServiceIDValues ==
    {Absent, JNull, JStr(""), JStr("svc"), JStr("12345")}
    \cup {JInt(Ramp(k)) : k \in 0..MaxDigits}
    \cup {JInt(Pow10(k)) : k \in 0..MaxDigits}
    \cup {JNum(TRUE, 7, 0), JNum(FALSE, 15, -1), JNum(FALSE, 1, 400)}

ShippingLinesPayloads ==
    [title : StringFieldValues, requested_fulfillment_service_id : ServiceIDValues]

\* timestamp texts, written from their parts
Two(n) == <<DigitChar(n \div 10), DigitChar(n % 10)>>
Four(n) == Two(n \div 100) \o Two(n % 100)

DateText(c) == Four(c.year) \o <<"-">> \o Two(c.month) \o <<"-">> \o Two(c.day)

OffsetText(o) ==
    IF o = 0 THEN <<"Z">>
    ELSE LET a == IF o < 0 THEN -o ELSE o
         IN  <<IF o < 0 THEN "-" ELSE "+">> \o Two(a \div 3600) \o <<":">>
             \o Two((a % 3600) \div 60)

StampText(c) ==
    DateText(c) \o <<"T">> \o Two(c.hour) \o <<":">> \o Two(c.minute) \o <<":">>
    \o Two(c.second) \o OffsetText(c.offset)

Date(y, m, d) == [year |-> y, month |-> m, day |-> d]

\* dates, of which 2013-02-29, 2013-06-31 and 2013-13-27 are not in the calendar
DateCases ==
    {Date(2013, 6, 27), Date(2012, 2, 29), Date(2013, 2, 29), Date(2013, 6, 31),
     Date(2013, 13, 27)}

StampCases ==
    [year : {2013}, month : {6}, day : {27}, hour : {8}, minute : {48},
     second : {27}, offset : {0, -14400, 19800}]

\* texts in neither format: ten characters that are no date, dates that are
\* not ten characters long, a stamp without offset, an hour of 24, no text
BadTexts ==
    {<<"n", "o", "t", "-", "a", "-", "d", "a", "t", "e">>,
     <<"2", "0", "1", "3", "/", "0", "6", "/", "2", "7">>,
     <<"2", "0", "1", "3", "-", "6", "-", "2", "7">>,
     <<"2", "0", "1", "3", "-", "0", "6", "-", "2", "7", " ">>,
     SubSeq(StampText([year |-> 2013, month |-> 6, day |-> 27, hour |-> 8,
                       minute |-> 48, second |-> 27, offset |-> 0]), 1, 19),
     StampText([year |-> 2013, month |-> 6, day |-> 27, hour |-> 24,
                minute |-> 0, second |-> 0, offset |-> 0]),
     <<>>}

\* a stamp with a fraction of a second
FracText ==
    SubSeq(StampText([year |-> 2013, month |-> 6, day |-> 27, hour |-> 8,
                      minute |-> 48, second |-> 27, offset |-> 0]), 1, 19)
    \o <<".", "5", "Z">>

UpdatedAtValues ==
    {Absent, JNull, JInt(5), JStr(FracText)}
    \cup {JStr(DateText(c)) : c \in DateCases}
    \cup {JStr(StampText(c)) : c \in StampCases}
    \cup {JStr(t) : t \in BadTexts}

\* created_at: not in the payload, a date, a text that is no date
CreatedAtValues ==
    {Absent, JStr(DateText(Date(2013, 6, 27))),
     JStr(<<"n", "o", "t", "-", "a", "-", "d", "a", "t", "e">>)}

ChargePayloads ==
    [name : StringFieldValues, updated_at : UpdatedAtValues,
     created_at : CreatedAtValues]

(***************************************************************************)
(* The responses a listing is given: a failed request, or the orders       *)
(* decoded from the body (by their ids) with no Link header or one of up   *)
(* to MaxLinks entries.  The entries: a well-formed one for next, for      *)
(* previous and for a rel that is neither, one without page_info, one      *)
(* without its angle brackets and one without its semicolon.               *)
(***************************************************************************)
MaxLinks == 2

LinkEntries ==
    {LinkEntry(TRUE, TRUE, TRUE, "next", "abc"),
     LinkEntry(TRUE, TRUE, TRUE, "previous", "def"),
     LinkEntry(TRUE, TRUE, TRUE, "last", "ghi"),
     LinkEntry(TRUE, TRUE, TRUE, "next", ""),
     LinkEntry(FALSE, FALSE, TRUE, "previous", "abc"),
     LinkEntry(TRUE, TRUE, FALSE, "next", "abc")}

ResponseHeaders ==
    {<<>>} \cup {[Link |-> h] : h \in SeqsUpTo(LinkEntries, MaxLinks)}

OrdersDecoded == {Slice(<<>>), Slice(<<1, 2>>)}

ListResponses ==
    {[err |-> ResponseError, headers |-> <<>>, orders |-> NilSlice]}
    \cup [err : {NoError}, headers : ResponseHeaders, orders : OrdersDecoded]

(***************************************************************************)
(* The webhook requests that arrive and the apps that verify them: a       *)
(* secret that is set or empty; a body of no, one or two bytes, on a       *)
(* reader that ends well or with an error; a header that is not set, not   *)
(* base64, base64 of three bytes, or base64 of the HMAC of one of the      *)
(* bodies under one of the secrets.                                        *)
(***************************************************************************)
Apps == [ApiSecret : {"", "secret"}]

Bodies == {<<>>, <<1>>, <<1, 2>>}

ShortBytes == [len |-> 3, key |-> "", message |-> <<>>]

ChecksumHeaders ==
    {EmptyText, NotBase64, Base64(ShortBytes)}
    \cup {Base64(HMAC(app.ApiSecret, b)) : app \in Apps, b \in Bodies}

WebhookRequests ==
    [Header : ChecksumHeaders,
     Body : {Reader(b, broken) : b \in Bodies, broken \in BOOLEAN}]

NoRequest == [state |-> "none"]

(***************************************************************************)
(* What the calls to the shop are given: an app with a client of its own   *)
(* or without, a shop, a code or token.                                    *)
(***************************************************************************)
AppClients == {NilPtr, Ptr(NewClient("shop-of-client", "client-token"))}
ShopNames == {"shop-a", "shop-b"}
CallArgs == {"x1", "x2"}
DoOutcomes == {NoError, ResponseError}

(***************************************************************************)
(* The callback URLs: code, shop and signature there or not, in the order  *)
(* of the keys or against it; hmac not there, not hex, the hex of the HMAC *)
(* of some message under the secret of the app, or of one under another.   *)
(***************************************************************************)
Reverse(seq) == [i \in 1..Len(seq) |-> seq[Len(seq) + 1 - i]]

Pairs(k, vals) == {<<>>} \cup {<<(<<k, Plain(v)>>)>> : v \in vals}

SignedMessages ==
    {c \o sh \o sg : c \in Pairs("code", {"1"}), sh \in Pairs("shop", {"a"}),
                      sg \in Pairs("signature", {"sig"})}

HmacValues ==
    {Plain("zz"), Hex(HMAC("other", <<>>))}
    \cup {Hex(HMAC("secret", m)) : m \in SignedMessages}

CallbackQueries ==
    {c \o h \o sh \o sg :
        c \in Pairs("code", {"1"}),
        h \in {<<>>} \cup {<<(<<"hmac", v>>)>> : v \in HmacValues},
        sh \in Pairs("shop", {"a"}),
        sg \in Pairs("signature", {"sig"})}

CallbackURLs ==
    {[RawQuery |-> q] : q \in CallbackQueries}
    \cup {[RawQuery |-> Reverse(q)] : q \in CallbackQueries}

(***************************************************************************)
(* Two more sets of receivers, a and b, each decoded into by its own       *)
(* invocations.  An invocation writes through its receiver pointer and to  *)
(* its locals (aux, p) and to nothing else: no decoder has package-level   *)
(* state, so an invocation is one step of its side and the invocations of  *)
(* the two sides interleave in any order.  The payloads are few: for each  *)
(* decoder one that does not set the field, one that sets it, and one      *)
(* that does not decode.                   *)
(***************************************************************************)
Sides == {"a", "b"}

FreshLineItem == [Title |-> "", Properties |-> NilSlice]
FreshShippingLines == [Title |-> "", RequestedFulfillmentServiceID |-> ""]
FreshCharge == [Name |-> "", UpdatedAt |-> NilPtr]
FreshReceivers == [li |-> FreshLineItem, sl |-> FreshShippingLines, r |-> FreshCharge]

TwinLineItemPayloads ==
    [title : {Absent},
     properties : {Absent,
                   JArr(<<JObj([name |-> JStr("a"), value |-> JStr("v")])>>),
                   JInt(3)}]

TwinShippingLinesPayloads ==
    [title : {Absent},
     requested_fulfillment_service_id : {JNull, JStr("svc"), JNum(FALSE, 1, 400)}]

TwinChargePayloads ==
    [name : {Absent},
     updated_at : {JNull, JStr(DateText(Date(2013, 6, 27))), JStr(<<>>)},
     created_at : {Absent}]

(***************************************************************************)
(* The state: one receiver of each type, fresh (zero) at the start and     *)
(* decoded into again and again, and the record of the last call: the      *)
(* payload, the receiver before the call and what the call returned.       *)
(***************************************************************************)
Init ==
    /\ li = [Title |-> "", Properties |-> NilSlice]
    /\ sl = [Title |-> "", RequestedFulfillmentServiceID |-> ""]
    /\ r = [Name |-> "", UpdatedAt |-> NilPtr]
    /\ call = [fn |-> "none"]
    /\ twin = [recv |-> [s \in Sides |-> FreshReceivers],
               last |-> [s \in Sides |-> [fn |-> "none"]]]
    /\ listing = [fn |-> "none"]
    /\ httpRequest = NoRequest
    /\ verified = [fn |-> "none"]
    /\ oauth = [pc |-> "idle"]
    /\ authz = [fn |-> "none"]

LineItemUnmarshal ==
    \E data \in LineItemPayloads :
        LET res == LineItem_UnmarshalJSON(li, data)
        IN  /\ li' = res.li
            /\ call' = [fn |-> "LineItem.UnmarshalJSON", data |-> data,
                        pre |-> li, err |-> res.err]
            /\ UNCHANGED <<sl, r, twin, listing, httpRequest, verified, oauth, authz>>

ShippingLinesUnmarshal ==
    \E data \in ShippingLinesPayloads :
        LET res == ShippingLines_UnmarshalJSON(sl, data)
        IN  /\ sl' = res.sl
            /\ call' = [fn |-> "ShippingLines.UnmarshalJSON", data |-> data,
                        pre |-> sl, err |-> res.err]
            /\ UNCHANGED <<li, r, twin, listing, httpRequest, verified, oauth, authz>>

ChargeUnmarshal ==
    \E data \in ChargePayloads :
        LET res == RecurringApplicationCharge_UnmarshalJSON(r, data)
        IN  /\ r' = res.r
            /\ call' = [fn |-> "RecurringApplicationCharge.UnmarshalJSON",
                        data |-> data, pre |-> r, err |-> res.err,
                        format |-> res.format]
            /\ UNCHANGED <<li, sl, twin, listing, httpRequest, verified, oauth, authz>>

\* an invocation on the receiver of one side
TwinLineItemUnmarshal(side) ==
    \E data \in TwinLineItemPayloads :
        LET pre == twin.recv[side].li
            res == LineItem_UnmarshalJSON(pre, data)
        IN  /\ twin' = [twin EXCEPT
                          !.recv[side].li = res.li,
                          !.last[side] = [fn |-> "LineItem.UnmarshalJSON",
                                          data |-> data, pre |-> pre,
                                          err |-> res.err]]
            /\ UNCHANGED <<li, sl, r, call, listing, httpRequest, verified,
                           oauth, authz>>

TwinShippingLinesUnmarshal(side) ==
    \E data \in TwinShippingLinesPayloads :
        LET pre == twin.recv[side].sl
            res == ShippingLines_UnmarshalJSON(pre, data)
        IN  /\ twin' = [twin EXCEPT
                          !.recv[side].sl = res.sl,
                          !.last[side] = [fn |-> "ShippingLines.UnmarshalJSON",
                                          data |-> data, pre |-> pre,
                                          err |-> res.err]]
            /\ UNCHANGED <<li, sl, r, call, listing, httpRequest, verified,
                           oauth, authz>>

TwinChargeUnmarshal(side) ==
    \E data \in TwinChargePayloads :
        LET pre == twin.recv[side].r
            res == RecurringApplicationCharge_UnmarshalJSON(pre, data)
        IN  /\ twin' = [twin EXCEPT
                          !.recv[side].r = res.r,
                          !.last[side] =
                              [fn |-> "RecurringApplicationCharge.UnmarshalJSON",
                               data |-> data, pre |-> pre, err |-> res.err]]
            /\ UNCHANGED <<li, sl, r, call, listing, httpRequest, verified,
                           oauth, authz>>

ListWithPagination ==
    \E resp \in ListResponses :
        LET res == OrderServiceOp_ListWithPagination(resp)
        IN  /\ listing' = [fn |-> "ListWithPagination", resp |-> resp,
                           orders |-> res.orders, pagination |-> res.pagination,
                           err |-> res.err]
            /\ UNCHANGED <<li, sl, r, call, twin, httpRequest, verified, oauth,
                           authz>>

List ==
    \E resp \in ListResponses :
        LET res == OrderServiceOp_List(resp)
        IN  /\ listing' = [fn |-> "List", resp |-> resp, orders |-> res.orders,
                           err |-> res.err]
            /\ UNCHANGED <<li, sl, r, call, twin, httpRequest, verified, oauth,
                           authz>>

\* a webhook request arrives at the handler
ReceiveWebhook ==
    \E req \in WebhookRequests :
        /\ httpRequest' = req
        /\ verified' = [fn |-> "none"]
        /\ UNCHANGED <<li, sl, r, call, twin, listing, oauth, authz>>

VerifyWebhook ==
    \E app \in Apps :
        /\ httpRequest # NoRequest
        /\ LET res == VerifyWebhookRequest(app, httpRequest)
           IN  /\ httpRequest' = res.req
               /\ verified' = [fn |-> "VerifyWebhookRequest", app |-> app,
                                pre |-> httpRequest, ok |-> res.ok]
        /\ UNCHANGED <<li, sl, r, call, twin, listing, oauth, authz>>

VerifyWebhookVerbose ==
    \E app \in Apps :
        /\ httpRequest # NoRequest
        /\ LET res == VerifyWebhookRequestVerbose(app, httpRequest)
           IN  /\ httpRequest' = res.req
               /\ verified' = [fn |-> "VerifyWebhookRequestVerbose", app |-> app,
                                pre |-> httpRequest, ok |-> res.ok,
                                err |-> res.err, compared |-> res.compared]
        /\ UNCHANGED <<li, sl, r, call, twin, listing, oauth, authz>>

\* one of the four calls begins
EnterCall ==
    /\ oauth.pc \in {"idle", "returned"}
    /\ \E fn \in OAuthCalls, appClient \in AppClients, shopName \in ShopNames,
          arg \in CallArgs :
           oauth' = App_Enter(fn, appClient, shopName, arg)
    /\ UNCHANGED <<li, sl, r, call, twin, listing, httpRequest, verified, authz>>

\* it builds its request, or fails to
BuildRequest ==
    /\ oauth.pc = "NewRequest"
    /\ \E ok \in BOOLEAN : oauth' = App_NewRequest(oauth, ok)
    /\ UNCHANGED <<li, sl, r, call, twin, listing, httpRequest, verified, authz>>

\* it executes the request and returns
DoRequest ==
    /\ oauth.pc = "Do"
    /\ \E outcome \in DoOutcomes : oauth' = App_Do(oauth, outcome)
    /\ UNCHANGED <<li, sl, r, call, twin, listing, httpRequest, verified, authz>>

VerifyAuthorization ==
    \E app \in Apps, u \in CallbackURLs :
        LET res == VerifyAuthorizationURL(app, u)
        IN  /\ authz' = [fn |-> "VerifyAuthorizationURL", app |-> app, pre |-> u,
                         u |-> res.u, message |-> res.message, ok |-> res.ok,
                         err |-> res.err]
            /\ UNCHANGED <<li, sl, r, call, twin, listing, httpRequest, verified,
                           oauth>>

TwinUnmarshal ==
    \E side \in Sides :
        \/ TwinLineItemUnmarshal(side)
        \/ TwinShippingLinesUnmarshal(side)
        \/ TwinChargeUnmarshal(side)

Next == LineItemUnmarshal \/ ShippingLinesUnmarshal \/ ChargeUnmarshal
        \/ TwinUnmarshal
        \/ ListWithPagination \/ List
        \/ ReceiveWebhook \/ VerifyWebhook \/ VerifyWebhookVerbose
        \/ EnterCall \/ BuildRequest \/ DoRequest
        \/ VerifyAuthorization

Spec == Init /\ [][Next]_vars

\* One receiver type at a time: the three decoders share no state.
SpecLineItem == Init /\ [][LineItemUnmarshal]_vars
SpecShippingLines == Init /\ [][ShippingLinesUnmarshal]_vars
SpecCharge == Init /\ [][ChargeUnmarshal]_vars

\* Webhook requests arriving and being verified, once or again.
SpecWebhook ==
    Init /\ [][ReceiveWebhook \/ VerifyWebhook \/ VerifyWebhookVerbose]_vars

\* The calls to the shop, one after the other.
SpecOAuth == Init /\ [][EnterCall \/ BuildRequest \/ DoRequest]_vars

\* Callback URLs being verified.
SpecAuthURL == Init /\ [][VerifyAuthorization]_vars

\* Listing orders.
SpecOrders == Init /\ [][ListWithPagination \/ List]_vars

\* The invocations on the receivers of the two sides, interleaved.
SpecTwin == Init /\ [][TwinUnmarshal]_vars

(***************************************************************************)
(* What the claims speak of, said without the decoders.                    *)
(***************************************************************************)
LastLineItem == call.fn = "LineItem.UnmarshalJSON"
LastShippingLines == call.fn = "ShippingLines.UnmarshalJSON"
LastCharge == call.fn = "RecurringApplicationCharge.UnmarshalJSON"

\* the other fields of the payload are well-formed
OthersWellFormed(field) == field.kind # "number"

\* a JSON number of at most 308 integer digits is below the largest float64
InFloat64(v) == NumDigits(v.mant) + v.exp <= 308

\* the digits of a JSON number written out: no exponent, no grouping
PlainDecimal(v) ==
    (IF v.neg THEN "-" ELSE "")
    \o (IF v.exp >= 0
        THEN IF v.mant = 0 THEN "0"
             ELSE DigitText(DigitsOf(v.mant) \o [i \in 1..v.exp |-> 0])
        ELSE LET whole == v.mant \div Pow10(-v.exp)
                 part == v.mant % Pow10(-v.exp)
             IN  DigitText(DigitsOf(whole)) \o "."
                 \o DigitText([i \in 1..(-v.exp - NumDigits(part)) |-> 0]
                              \o DigitsOf(part)))

\* the Go value x is the JSON scalar j
SameValue(x, j) ==
    CASE j.kind = "null" -> x = GoNil
      [] j.kind = "string" -> x = GoString(j.str)
      [] j.kind = "bool" -> x = GoBool(j.b)
      [] j.kind = "number" ->
            /\ x.t = "float64"
            /\ x.neg = j.neg
            /\ LET lo == IF x.exp < j.exp THEN x.exp ELSE j.exp
               IN  x.mant * Pow10(x.exp - lo) = j.mant * Pow10(j.exp - lo)

ValueDecodes(j) == j.kind = "number" => InFloat64(j)

\* a {name, value} pair: the name a string, the value any scalar a Go value
\* can hold; either key may be missing
IsPair(o) ==
    /\ o.kind = "object"
    /\ HasKey(o, "name") => o.fields.name.kind = "string"
    /\ HasKey(o, "value") => ValueDecodes(o.fields.value)

PairName(o) == IF HasKey(o, "name") THEN o.fields.name.str ELSE ""
PairValue(o) == IF HasKey(o, "value") THEN o.fields.value ELSE JNull

SamePair(p, o) == p.Name = PairName(o) /\ SameValue(p.Value, PairValue(o))

\* what encoding/json accepts for a NoteAttribute, and for a slice of them
DecodesAsPair(v) ==
    \/ v.kind = "null"
    \/ /\ v.kind = "object"
       /\ HasKey(v, "name") => v.fields.name.kind \in {"string", "null"}
       /\ HasKey(v, "value") => ValueDecodes(v.fields.value)

DecodesAsPairs(v) ==
    v.kind = "array" /\ \A i \in 1..Len(v.items) : DecodesAsPair(v.items[i])

EmptyObject == JObj(<<>>)

(***************************************************************************)
(* C1.  For every numeric requested_fulfillment_service_id n that is       *)
(* decoded, RequestedFulfillmentServiceID is the plain decimal rendering   *)
(* of n: digits only, no exponent, integers of seven and more digits       *)
(* included.  The code does not do this: the number passes through a       *)
(* float64 and %v, which writes 1234567 as 1.234567e+06.                   *)
(***************************************************************************)
C1_NumericIdIsPlainDecimal ==
    (/\ LastShippingLines
     /\ call.data.requested_fulfillment_service_id.kind = "number"
     /\ call.err = NoError)
    => sl.RequestedFulfillmentServiceID
         = PlainDecimal(call.data.requested_fulfillment_service_id)

(***************************************************************************)
(* C2 as stated: properties absent or {} gives no error and a Properties   *)
(* that is empty and not nil.                                              *)
(***************************************************************************)
C2_EmptyIsNotNil ==
    (/\ LastLineItem
     /\ OthersWellFormed(call.data.title)
     /\ call.data.properties \in {Absent, EmptyObject})
    => /\ call.err = NoError
       /\ li.Properties.elems = <<>>
       /\ ~li.Properties.isNil

(***************************************************************************)
(* C2 as amended: properties absent gives no error and leaves Properties   *)
(* as it was before the call; properties {} gives no error and sets        *)
(* Properties to nil, the null sequence of length 0.                       *)
(***************************************************************************)
C2_EmptyMarker ==
    (LastLineItem /\ OthersWellFormed(call.data.title))
    => /\ call.data.properties = Absent
          => call.err = NoError /\ li.Properties = call.pre.Properties
       /\ call.data.properties = EmptyObject
          => call.err = NoError /\ li.Properties = NilSlice

C2_Witness ==
    /\ LastLineItem
    /\ call.data.properties = EmptyObject
    /\ call.pre.Properties.elems # <<>>
    /\ li.Properties = NilSlice

C5_MalformedIsError ==
    (/\ LastLineItem
     /\ call.data.properties # Absent
     /\ IF call.data.properties.kind = "array"
        THEN ~DecodesAsPairs(call.data.properties)
        ELSE ~DecodesAsPair(call.data.properties))
    => call.err # NoError

C5_Witness ==
    /\ LastLineItem
    /\ OthersWellFormed(call.data.title)
    /\ call.data.properties.kind = "array"
    /\ ~DecodesAsPairs(call.data.properties)
    /\ call.err # NoError
    /\ call.pre.Properties.elems # <<>>
    /\ li.Properties = call.pre.Properties

(***************************************************************************)
(* C6.  When requested_fulfillment_service_id is null or absent, the call  *)
(* sets RequestedFulfillmentServiceID to the empty string, whatever the    *)
(* receiver held before.                                                   *)
(***************************************************************************)
C6_NullIdIsEmpty ==
    (/\ LastShippingLines
     /\ OthersWellFormed(call.data.title)
     /\ call.data.requested_fulfillment_service_id \in {Absent, JNull})
    => call.err = NoError /\ sl.RequestedFulfillmentServiceID = ""

C6_Witness ==
    /\ LastShippingLines
    /\ call.data.requested_fulfillment_service_id = JNull
    /\ call.pre.RequestedFulfillmentServiceID # ""
    /\ sl.RequestedFulfillmentServiceID = ""

(***************************************************************************)
(* C7 as stated: for a null, a number or a string in an otherwise          *)
(* well-formed payload the call never returns an error, and a string s is  *)
(* stored as exactly s.                                                    *)
(***************************************************************************)
C7_TotalOverShapes ==
    (/\ LastShippingLines
     /\ OthersWellFormed(call.data.title)
     /\ call.data.requested_fulfillment_service_id.kind
            \in {"null", "number", "string"})
    => /\ call.err = NoError
       /\ call.data.requested_fulfillment_service_id.kind = "string"
          => sl.RequestedFulfillmentServiceID
               = call.data.requested_fulfillment_service_id.str

(***************************************************************************)
(* C7 as amended: the same for a null, a string, or a number that a        *)
(* float64 can hold (a number above the largest float64, such as 1e400,    *)
(* makes the call return the error of json.Unmarshal).                     *)
(***************************************************************************)
C7_TotalOverFloat64Shapes ==
    (/\ LastShippingLines
     /\ OthersWellFormed(call.data.title)
     /\ call.data.requested_fulfillment_service_id.kind
            \in {"null", "number", "string"}
     /\ ValueDecodes(call.data.requested_fulfillment_service_id))
    => /\ call.err = NoError
       /\ call.data.requested_fulfillment_service_id.kind = "string"
          => sl.RequestedFulfillmentServiceID
               = call.data.requested_fulfillment_service_id.str

C7_Witness ==
    /\ LastShippingLines
    /\ call.data.requested_fulfillment_service_id = JStr("svc")
    /\ call.pre.RequestedFulfillmentServiceID = "12345"
    /\ call.err = NoError
    /\ sl.RequestedFulfillmentServiceID = "svc"

(***************************************************************************)
(* C8.  parse chooses the format by the length of the text alone: exactly  *)
(* ten characters are parsed with the date-only layout and give midnight   *)
(* of that date, any other length is parsed as RFC 3339 and keeps the      *)
(* numeric offset; on success *dest points to the parsed time.             *)
(***************************************************************************)
C8_FormatByLength ==
    (/\ LastCharge
     /\ OthersWellFormed(call.data.name)
     /\ call.data.updated_at.kind = "string")
    => LET text == call.data.updated_at.str
       IN  /\ call.format = IF Len(text) = 10 THEN DateOnly ELSE RFC3339
           /\ \A c \in DateCases :
                  text = DateText(c)
                  => /\ c.month <= 12 /\ c.day <= 28 => call.err = NoError
                     /\ call.err = NoError
                        => r.UpdatedAt
                             = Ptr(Time(c.year, c.month, c.day, 0, 0, 0, 0, 0))
           /\ \A c \in StampCases :
                  text = StampText(c)
                  => /\ call.err = NoError
                     /\ r.UpdatedAt
                          = Ptr(Time(c.year, c.month, c.day, c.hour, c.minute,
                                     c.second, 0, c.offset))

C8_Witness ==
    /\ LastCharge
    /\ call.data.updated_at.kind = "string"
    /\ Len(call.data.updated_at.str) = 25
    /\ call.format = RFC3339
    /\ call.err = NoError
    /\ ~call.pre.UpdatedAt.isNil
    /\ call.pre.UpdatedAt.v.hour = 0
    /\ r.UpdatedAt = Ptr(Time(2013, 6, 27, 8, 48, 27, 0, -14400))

(***************************************************************************)
(* C9.  When the text is in neither format (ten characters that are no     *)
(* date and a date that is not ten characters long included), parse        *)
(* returns an error and leaves *dest as it was before the call, and        *)
(* RecurringApplicationCharge.UnmarshalJSON returns that error.            *)
(***************************************************************************)
C9_BadTextIsError ==
    (/\ LastCharge
     /\ OthersWellFormed(call.data.name)
     /\ call.data.updated_at.kind = "string")
    => /\ call.data.updated_at.str \in BadTexts => call.err = ParseError
       /\ call.err # NoError => r.UpdatedAt = call.pre.UpdatedAt

C9_Witness ==
    /\ LastCharge
    /\ call.data.updated_at = JStr(<<"n", "o", "t", "-", "a", "-", "d", "a", "t", "e">>)
    /\ ~call.pre.UpdatedAt.isNil
    /\ call.err = ParseError
    /\ r.UpdatedAt = call.pre.UpdatedAt

(***************************************************************************)
(* C10 as stated: for a nil text parse returns no error and yields a null  *)
(* timestamp.                                                              *)
(***************************************************************************)
C10_NilYieldsNull ==
    (/\ LastCharge
     /\ OthersWellFormed(call.data.name)
     /\ call.data.updated_at \in {Absent, JNull})
    => call.err = NoError /\ r.UpdatedAt = NilPtr

(***************************************************************************)
(* C10 as amended: for a nil text parse returns no error, parses nothing   *)
(* and leaves *dest as it was before the call: the timestamp is null when  *)
(* *dest was null before, as in a fresh record, and the time held before   *)
(* otherwise.                                                              *)
(***************************************************************************)
C10_NilLeavesDest ==
    (/\ LastCharge
     /\ OthersWellFormed(call.data.name)
     /\ call.data.updated_at \in {Absent, JNull})
    => /\ call.err = NoError
       /\ call.format = ""
       /\ r.UpdatedAt = call.pre.UpdatedAt

C10_Witness ==
    /\ LastCharge
    /\ call.data.updated_at = JNull
    /\ ~call.pre.UpdatedAt.isNil
    /\ call.err = NoError
    /\ r.UpdatedAt = call.pre.UpdatedAt

(***************************************************************************)
(* C19.  When the payload of a line item has no properties field at all,   *)
(* LineItem.UnmarshalJSON leaves the receiver's Properties exactly as it   *)
(* was before the call, whatever it held; a properties field of {} or of   *)
(* null sets Properties to nil.                                            *)
(***************************************************************************)
C19_AbsentKeepsNullClears ==
    (LastLineItem /\ call.err = NoError)
    => /\ call.data.properties = Absent => li.Properties = call.pre.Properties
       /\ call.data.properties \in {EmptyObject, JNull} => li.Properties = NilSlice

\* a receiver that held two properties keeps them when the field is absent
C19_Witness ==
    /\ LastLineItem
    /\ call.err = NoError
    /\ call.data.properties = Absent
    /\ Len(call.pre.Properties.elems) = 2
    /\ li.Properties = call.pre.Properties

(***************************************************************************)
(* C20.  RecurringApplicationCharge.UnmarshalJSON takes UpdatedAt from     *)
(* parse alone: an updated_at text in the date-only or the RFC 3339 form   *)
(* sets r.UpdatedAt to the time parsed from it, a null or absent           *)
(* updated_at leaves r.UpdatedAt as it was, and the text of created_at     *)
(* (which stands for activated_on, billing_on, cancelled_on and            *)
(* trial_ends_on too) is never parsed: whatever it says, a date or not,    *)
(* the call fails only when parsing updated_at fails.                      *)
(***************************************************************************)
C20_OnlyUpdatedAtParsed ==
    (LastCharge /\ OthersWellFormed(call.data.name))
    => LET u == call.data.updated_at
       IN  /\ u \in {Absent, JNull}
              => call.err = NoError /\ r.UpdatedAt = call.pre.UpdatedAt
           /\ u.kind = "string"
              => LET p == parse(call.pre.UpdatedAt, Ptr(u.str))
                 IN  call.err = p.err /\ r.UpdatedAt = p.dest
           /\ u = JStr(DateText(Date(2012, 2, 29)))
              => /\ call.err = NoError
                 /\ r.UpdatedAt = Ptr(Time(2012, 2, 29, 0, 0, 0, 0, 0))
           /\ \A c \in StampCases :
                  u = JStr(StampText(c))
                  => /\ call.err = NoError
                     /\ r.UpdatedAt.v.hour = c.hour
                     /\ r.UpdatedAt.v.offset = c.offset

\* created_at is no date, updated_at is a date: no error, UpdatedAt parsed
C20_Witness ==
    /\ LastCharge
    /\ call.data.created_at = JStr(<<"n", "o", "t", "-", "a", "-", "d", "a", "t", "e">>)
    /\ call.data.updated_at = JStr(DateText(Date(2012, 2, 29)))
    /\ call.err = NoError
    /\ r.UpdatedAt = Ptr(Time(2012, 2, 29, 0, 0, 0, 0, 0))

(***************************************************************************)
(* The last invocation of side a and the last invocation of side b.        *)
(***************************************************************************)
\* both sides were last given the same payload by the same decoder
SameInput ==
    /\ twin.last["a"].fn # "none"
    /\ twin.last["a"].fn = twin.last["b"].fn
    /\ twin.last["a"].data = twin.last["b"].data

\* the receiver that the last invocation of the side decoded into
Decoded(side) ==
    CASE twin.last[side].fn = "LineItem.UnmarshalJSON" -> twin.recv[side].li
      [] twin.last[side].fn = "ShippingLines.UnmarshalJSON" -> twin.recv[side].sl
      [] twin.last[side].fn = "RecurringApplicationCharge.UnmarshalJSON" ->
            twin.recv[side].r

\* the payload says what the field is to be: a properties key that is there,
\* any requested_fulfillment_service_id, an updated_at that is a text
SetsField(fn, data) ==
    CASE fn = "LineItem.UnmarshalJSON" -> data.properties # Absent
      [] fn = "ShippingLines.UnmarshalJSON" -> TRUE
      [] fn = "RecurringApplicationCharge.UnmarshalJSON" ->
            data.updated_at.kind = "string"

LastListWithPagination == listing.fn = "ListWithPagination"

\* the request went through and brought a response
Responded == listing.fn # "none" /\ listing.resp.err = NoError

\* the Link header of the response, empty when there is none
LinkOf(resp) == IF "Link" \in DOMAIN resp.headers THEN resp.headers.Link ELSE <<>>

\* the entry lacks a delimiter or the page token
Lacking(e) == ~e.lt \/ ~e.gt \/ ~e.semi \/ e.page_info = ""

\* the page tokens of the entries of header h whose rel is rel
TokensOf(h, rel) == {h[i].page_info : i \in {j \in 1..Len(h) : h[j].rel = rel}}

(***************************************************************************)
(* C12.  On a response without a Link header, or with an empty one,        *)
(* ListWithPagination returns the decoded orders, a pagination that is     *)
(* there and has neither next nor previous set, and a nil error.           *)
(***************************************************************************)
C12_NoLinkEmptyPagination ==
    (LastListWithPagination /\ Responded /\ LinkOf(listing.resp) = <<>>)
    => /\ listing.err = NoError
       /\ listing.orders = listing.resp.orders
       /\ ~listing.pagination.isNil
       /\ listing.pagination.v.next = NilPtr
       /\ listing.pagination.v.previous = NilPtr

C12_Witness ==
    /\ LastListWithPagination
    /\ listing.resp.err = NoError
    /\ listing.resp.headers = <<>>
    /\ listing.orders = Slice(<<1, 2>>)
    /\ listing.pagination = Ptr([next |-> NilPtr, previous |-> NilPtr])
    /\ listing.err = NoError

(***************************************************************************)
(* C13.  For a Link header all of whose entries are well-formed, there is  *)
(* no error and each slot holds a page token of an entry whose rel names   *)
(* the slot, wherever in the header the entry stands (the token, when one  *)
(* entry names the slot); an entry with another rel is ignored; a slot     *)
(* that no entry names stays absent.                                       *)
(***************************************************************************)
C13_SlotsByRel ==
    (/\ LastListWithPagination /\ Responded
     /\ LinkOf(listing.resp) # <<>>
     /\ \A i \in 1..Len(LinkOf(listing.resp)) : ~Lacking(LinkOf(listing.resp)[i]))
    => LET h == LinkOf(listing.resp)
           nexts == TokensOf(h, "next")
           previouses == TokensOf(h, "previous")
       IN  /\ listing.err = NoError
           /\ ~listing.pagination.isNil
           /\ nexts = {} => listing.pagination.v.next = NilPtr
           /\ nexts # {} => /\ ~listing.pagination.v.next.isNil
                            /\ listing.pagination.v.next.v \in nexts
           /\ previouses = {} => listing.pagination.v.previous = NilPtr
           /\ previouses # {} => /\ ~listing.pagination.v.previous.isNil
                                 /\ listing.pagination.v.previous.v \in previouses

\* previous before an entry of another rel: previous set, next absent
C13_Witness ==
    /\ LastListWithPagination
    /\ listing.resp.err = NoError
    /\ "Link" \in DOMAIN listing.resp.headers
    /\ Len(listing.resp.headers.Link) = 2
    /\ listing.resp.headers.Link[1].rel = "previous"
    /\ listing.resp.headers.Link[2].rel = "last"
    /\ listing.err = NoError
    /\ listing.pagination = Ptr([next |-> NilPtr, previous |-> Ptr("def")])

(***************************************************************************)
(* C14.  When an entry of the Link header lacks the page_info parameter or *)
(* one of its delimiters, ListWithPagination returns nil orders, nil       *)
(* pagination and the error of the extraction; whenever ListWithPagination *)
(* returns an error its orders and its pagination are nil, and whenever    *)
(* List returns an error its orders are nil.                               *)
(***************************************************************************)
C14_FailedExtractionReturnsNothing ==
    /\ (/\ LastListWithPagination /\ Responded
        /\ \E i \in 1..Len(LinkOf(listing.resp)) : Lacking(LinkOf(listing.resp)[i]))
       => /\ listing.err = MalformedPaginationError
          /\ listing.orders = NilSlice
          /\ listing.pagination = NilPtr
    /\ (LastListWithPagination /\ listing.err # NoError)
       => listing.orders = NilSlice /\ listing.pagination = NilPtr
    /\ (listing.fn = "List" /\ listing.err # NoError) => listing.orders = NilSlice
    /\ (/\ listing.fn = "List" /\ Responded
        /\ \E i \in 1..Len(LinkOf(listing.resp)) : Lacking(LinkOf(listing.resp)[i]))
       => listing.err = MalformedPaginationError

\* orders were decoded, the first entry is good, the second has no page token
C14_Witness ==
    /\ LastListWithPagination
    /\ listing.resp.err = NoError
    /\ listing.resp.orders = Slice(<<1, 2>>)
    /\ "Link" \in DOMAIN listing.resp.headers
    /\ Len(listing.resp.headers.Link) = 2
    /\ ~Lacking(listing.resp.headers.Link[1])
    /\ listing.resp.headers.Link[2].page_info = ""
    /\ listing.err = MalformedPaginationError
    /\ listing.orders = NilSlice
    /\ listing.pagination = NilPtr

(***************************************************************************)
(* C15.  After VerifyWebhookRequest or VerifyWebhookRequestVerbose has     *)
(* returned, by whichever return, reading httpRequest.Body yields the      *)
(* bytes the body held before the call.  The code does not do this on one  *)
(* return: when reading the body fails, VerifyWebhookRequestVerbose        *)
(* returns with the body consumed and not put back.                        *)
(***************************************************************************)
C15_BodyStillReadable ==
    verified.fn # "none" => httpRequest.Body.bytes = verified.pre.Body.bytes

(***************************************************************************)
(* The last call of VerifyWebhookRequestVerbose.                           *)
(***************************************************************************)
LastVerbose == verified.fn = "VerifyWebhookRequestVerbose"

SecretEmpty == verified.app.ApiSecret = ""
HeaderMissing == verified.pre.Header = EmptyText
HeaderNotBase64 == verified.pre.Header = NotBase64
HeaderWrongLength ==
    verified.pre.Header.text = "base64" /\ verified.pre.Header.bytes.len # 32
BodyEmpty == verified.pre.Body.bytes = <<>>

(***************************************************************************)
(* C18.  VerifyWebhookRequestVerbose returns true exactly when it returns  *)
(* a nil error.  When ApiSecret is empty, the checksum header is missing,  *)
(* the header is not base64, the decoded header is not 32 bytes long or    *)
(* the body is empty, it returns false with an error without having        *)
(* compared any HMAC, and the error is that of the first of these checks,  *)
(* in this order, that fails (the error of reading the body, when reading  *)
(* fails, comes before that of the empty body).                            *)
(***************************************************************************)
C18_VerboseChecksInOrder ==
    LastVerbose
    => /\ verified.ok <=> verified.err = NoError
       /\ (SecretEmpty \/ HeaderMissing \/ HeaderNotBase64 \/ HeaderWrongLength
           \/ BodyEmpty)
          => ~verified.ok /\ verified.err # NoError /\ ~verified.compared
       /\ SecretEmpty => verified.err = ErrSecretEmpty
       /\ (~SecretEmpty /\ HeaderMissing) => verified.err = ErrHeaderNotSet
       /\ (~SecretEmpty /\ HeaderNotBase64)
          => verified.err = "base64.CorruptInputError"
       /\ (~SecretEmpty /\ HeaderWrongLength) => verified.err = ErrHMACLength
       /\ (/\ ~SecretEmpty /\ ~HeaderMissing /\ ~HeaderNotBase64
           /\ ~HeaderWrongLength /\ BodyEmpty)
          => verified.err = IF verified.pre.Body.broken THEN ReadError
                            ELSE ErrBodyEmpty

\* everything is wrong at once, and the error is that of the first check
C18_Witness ==
    /\ LastVerbose
    /\ SecretEmpty /\ HeaderMissing /\ BodyEmpty
    /\ ~verified.ok
    /\ verified.err = ErrSecretEmpty

(***************************************************************************)
(* C16.  Each of GetAccessToken, GetOfflineAccessToken,                    *)
(* GetNameAndEmailFromOnlineAccessToken and Uninstall builds one request   *)
(* and executes it once: at no point of a call has more than one HTTP      *)
(* request gone out, a call that returns has called NewRequest once, a     *)
(* call whose request could not be built returns that error with no        *)
(* request executed, and a call whose request failed returns with one      *)
(* request executed, not more.                                             *)
(***************************************************************************)
C16_OneRequestNoRetry ==
    oauth.pc # "idle"
    => /\ oauth.newRequestCalls <= 1
       /\ oauth.doCalls <= 1
       /\ oauth.sent <= oauth.doCalls
       /\ oauth.pc = "returned"
          => /\ oauth.newRequestCalls = 1
             /\ oauth.err = RequestError => oauth.doCalls = 0 /\ oauth.sent = 0
             /\ oauth.err # RequestError => oauth.doCalls = 1 /\ oauth.sent = 1

\* the request failed, and the call returned after that one request
C16_Witness ==
    /\ oauth.pc = "returned"
    /\ oauth.fn = "Uninstall"
    /\ oauth.err = ResponseError
    /\ oauth.sent = 1

(***************************************************************************)
(* The last verification of a callback URL.                                *)
(***************************************************************************)
LastAuthorization == authz.fn = "VerifyAuthorizationURL"

\* the pairs of a query, as a set
PairsOf(query) == {query[i] : i \in 1..Len(query)}

KeyIndex(k) == CHOOSE i \in 1..Len(KeyOrder) : KeyOrder[i] = k

HasParam(query, k) == \E i \in 1..Len(query) : query[i][1] = k

(***************************************************************************)
(* C17.  VerifyAuthorizationURL signs all the query parameters of the URL  *)
(* but hmac and signature: the message holds every other pair of the       *)
(* query, each once, sorted by key, and neither hmac nor signature; the    *)
(* verdict is true exactly when the hmac parameter is the hex text of the  *)
(* HMAC of that message under ApiSecret.  The URL of the caller is left as *)
(* it was: after the call it has its query, hmac and signature included.   *)
(***************************************************************************)
C17_SignsAllButHmacAndSignature ==
    LastAuthorization
    => /\ PairsOf(authz.message)
            = {p \in PairsOf(authz.pre.RawQuery) : p[1] \notin {"hmac", "signature"}}
       /\ \A i, j \in 1..Len(authz.message) :
              i < j => KeyIndex(authz.message[i][1]) < KeyIndex(authz.message[j][1])
       /\ authz.ok
          <=> \E i \in 1..Len(authz.pre.RawQuery) :
                 authz.pre.RawQuery[i]
                   = <<"hmac", Hex(HMAC(authz.app.ApiSecret, authz.message))>>
       /\ authz.err = NoError
       /\ authz.u = authz.pre
       /\ \A k \in {"hmac", "signature"} :
              HasParam(authz.pre.RawQuery, k) => HasParam(authz.u.RawQuery, k)

\* a URL with shop before code, signed without its signature: accepted, and
\* hmac and signature are still in it
C17_Witness ==
    /\ LastAuthorization
    /\ authz.ok
    /\ Len(authz.message) = 2
    /\ authz.pre.RawQuery[1][1] = "signature"
    /\ HasParam(authz.u.RawQuery, "hmac")
    /\ HasParam(authz.u.RawQuery, "signature")
    /\ authz.u = authz.pre
====
